---- MODULE Spec2Model ----
(***************************************************************************)
(* Model of app.py, the Streamlit blast-plan ("plano de fogo") simulator.  *)
(*                                                                         *)
(* One run of the script is modelled: the widget values are read, the      *)
(* derived quantities are computed top to bottom, the hole grid is         *)
(* plotted point by point, the Rosin-Rammler curves are swept over the     *)
(* pattern catalog, and, when the button is pressed, gerar_pdf runs.       *)
(*                                                                         *)
(* Floating-point quantities are held as fixed-point integers with four    *)
(* decimal digits (the integer v stands for v / 10^4).  Powers, logarithms *)
(* and exponentials are computed from one table of 10^(k/40), read         *)
(* forwards (Pow10) and backwards (Log10) by linear interpolation.         *)
(***************************************************************************)
EXTENDS Integers, Sequences, FiniteSets, TLC

(***************************************************************************)
(* Fixed-point arithmetic.                                                 *)
(***************************************************************************)

\* One unit of the fixed-point representation: 1.0 is held as Um.
Um == 10 * 1000

\* Largest magnitude held, 200000.0: the integers of TLC end just above it.
\* Every quantity of lines 35-122 stays below it for every input of the
\* widgets (the largest is massa_total_g, 103112 g); only (x / X50) ** n on
\* line 123 can pass it, and is then held as Sat: exp(-0.693 * v) is 0 to
\* four digits for every v above 14.
Sat == 2 * 1000 * 1000 * 1000

\* Marks a Python name that has not been assigned yet.
NaoDefinido == 0 - (Sat + 2)

\* numpy's inf, the result of a float64 division by 0.0.
Infinito == Sat + 1

Abs(v) == IF v < 0 THEN 0 - v ELSE v

\* x + y for x, y >= 0, held at Sat when the sum passes it.
SomaSat(x, y) == IF x > Sat - y THEN Sat ELSE x + y

\* floor(a * b / Um) for a, b >= 0, computed on the two halves of each factor
\* so that no intermediate result leaves the 32-bit range; Sat exactly when
\* the product passes Sat.
MulPos(a, b) ==
    LET ah == a \div Um
        al == a % Um
        bh == b \div Um
        bl == b % Um
    IN  IF ah > 0 /\ bh > (Sat \div Um) \div ah
        THEN Sat
        ELSE SomaSat(SomaSat(ah * bh * Um, ah * bl),
                     SomaSat(al * bh, (al * bl) \div Um))

\* a * b in fixed point, rounded towards zero.
MulFx(a, b) ==
    IF (a < 0) = (b < 0)
    THEN MulPos(Abs(a), Abs(b))
    ELSE 0 - MulPos(Abs(a), Abs(b))

RECURSIVE Casas(_, _, _, _)
\* Long division: the quotient q so far, the remainder r, d digits to go.
Casas(q, r, b, d) ==
    IF d = 0 THEN q
    ELSE Casas(q * 10 + ((r * 10) \div b), (r * 10) % b, b, d - 1)

\* floor(a * Um / b) for a >= 0 and 0 < b < 2 * 10^8 (the divisors of the
\* script are below 2 * 10^7); Sat when the quotient passes Sat.
DivPos(a, b) ==
    IF a \div b >= Sat \div Um THEN Sat ELSE Casas(a \div b, a % b, b, 4)

\* a / b in fixed point, rounded towards zero; b # 0.
DivFx(a, b) ==
    IF (a < 0) = (b < 0)
    THEN DivPos(Abs(a), Abs(b))
    ELSE 0 - DivPos(Abs(a), Abs(b))

\* 10^(k/40) for k = 0..40, in fixed point.
Tab10 == << 10000, 10593, 11220, 11885, 12589, 13335, 14125, 14962,
            15849, 16788, 17783, 18836, 19953, 21135, 22387, 23714,
            25119, 26607, 28184, 29854, 31623, 33497, 35481, 37584,
            39811, 42170, 44668, 47315, 50119, 53088, 56234, 59566,
            63096, 66834, 70795, 74989, 79433, 84140, 89125, 94406,
            100000 >>

Segs == Len(Tab10) - 1

Passo == Um \div Segs

\* The powers of ten 10^0 .. 10^9.
PotenciasDeDez == << 1, 10, 100, 1000, 10000, 100000, 1000000, 10000000,
                     100000000, 1000000000 >>

Dez(e) == PotenciasDeDez[e + 1]

\* 10^(y/Um) in fixed point: the integer part of y shifts the decimal point,
\* the fractional part is interpolated in Tab10.
Pow10(y) ==
    LET ip == y \div Um
        fp == y % Um
        k  == fp \div Passo
        r  == fp % Passo
        m  == Tab10[k + 1] + (((Tab10[k + 2] - Tab10[k + 1]) * r) \div Passo)
    IN  IF ip >= 6 THEN Sat
        ELSE IF ip <= 0 - 6 THEN 0
        ELSE IF ip >= 0 THEN (IF m > Sat \div Dez(ip) THEN Sat ELSE m * Dez(ip))
        ELSE m \div Dez(0 - ip)

\* The decade e with 10^e <= v / Um < 10^(e+1), for v > 0.
Decada(v) ==
    IF v < Um
    THEN IF v >= 1000 THEN 0 - 1 ELSE IF v >= 100 THEN 0 - 2
         ELSE IF v >= 10 THEN 0 - 3 ELSE 0 - 4
    ELSE IF v < 100000 THEN 0 ELSE IF v < 1000000 THEN 1
         ELSE IF v < 10000000 THEN 2 ELSE IF v < 100000000 THEN 3
         ELSE IF v < 1000000000 THEN 4 ELSE 5

RECURSIVE Segmento(_, _, _)
\* The segment k in lo..hi with Tab10[k] <= m < Tab10[k+1], by bisection.
Segmento(m, lo, hi) ==
    IF lo = hi THEN lo
    ELSE IF m < Tab10[((lo + hi) \div 2) + 1]
         THEN Segmento(m, lo, (lo + hi) \div 2)
         ELSE Segmento(m, ((lo + hi) \div 2) + 1, hi)

\* The mantissa m (Um <= m < 10 Um) at segment k of decade e.
Log10Em(e, m, k) ==
    e * Um + ((k - 1) * Um + (((m - Tab10[k]) * Um) \div (Tab10[k + 1] - Tab10[k]))) \div Segs

Log10Mantissa(e, m) == Log10Em(e, m, Segmento(m, 1, Segs))

Log10Decada(v, e) == Log10Mantissa(e, IF e >= 0 THEN v \div Dez(e) ELSE v * Dez(0 - e))

\* log10(v/Um) in fixed point for v > 0: the inverse of Pow10.
Log10(v) == Log10Decada(v, Decada(v))

\* log10(e): np.exp(t) is 10^(t * log10(e)).
Log10E == 4343

\* Python's base ** expo for base >= 0.
Pow(base, expo) ==
    IF base <= 0
    THEN IF expo > 0 THEN 0 ELSE IF expo = 0 THEN Um ELSE Sat
    ELSE Pow10(MulFx(expo, Log10(base)))

\* np.exp(t).
Exp(t) == Pow10(MulFx(t, Log10E))

(***************************************************************************)
(* Reference tables (lines 12-30), in declaration order.                   *)
(***************************************************************************)

explosivos == << [nome |-> "ANFO", densidade |-> 9000],
                 [nome |-> "Dinamite granulada", densidade |-> 11000],
                 [nome |-> "Dinamite gelatina", densidade |-> 14000],
                 [nome |-> "Lama encartuchada", densidade |-> 12000] >>

macicos == << [nome |-> "Rocha friável de baixa dureza", A |-> 3 * Um],
              [nome |-> "Rocha branda e pouco fraturada", A |-> 5 * Um],
              [nome |-> "Rocha dura e altamente fraturada", A |-> 10 * Um],
              [nome |-> "Rocha altamente dura e pouco fraturada", A |-> 12 * Um] >>

malha == << [nome |-> "Aberta", B |-> 65000],
            [nome |-> "Fechada", B |-> 30000] >>

\* list(d.keys()): the names of a table, in order.
Chaves(tab) == [k \in 1..Len(tab) |-> tab[k].nome]

TemChave(tab, nome) == \E k \in 1..Len(tab) : tab[k].nome = nome

\* d[nome] for a name that is a key.
Buscar(tab, nome) == tab[CHOOSE k \in 1..Len(tab) : tab[k].nome = nome]

(***************************************************************************)
(* Fixed values of the script.                                             *)
(***************************************************************************)

subperf == 6000

inclinacao == 15

diametro == 762000

W == 1000

AlturaMin == 2 * Um

AlturaMax == 15 * Um

FurosLinhaMax == 8

LinhasMax == 5

NumPontos == 100

\* Number of equal parts the height slider's range is cut into; the slider
\* positions modelled are its ends and the cuts, rounded to the slider's
\* step of 0.01.
PartesAltura == 2

Alturas ==
    { AlturaMin + 100 * ((((AlturaMax - AlturaMin) \div 100) * k) \div PartesAltura) :
        k \in 0..PartesAltura }

(***************************************************************************)
(* Calculation functions (lines 35-47).                                    *)
(***************************************************************************)

\* The spacing with the sign of the burden term slipped.
calcular_espacamento_sinal(H, B) == MulFx(2300, H - 2 * B)

calcular_espacamento(H, B) == MulFx(2300, H + 2 * B)

Pi == 31416

calcular_qe(dens, diam, alt_total) ==
    LET diametro_cm == DivFx(diam, 10 * Um)
        area_cm2 == MulFx(DivFx(Pi, 4 * Um), MulFx(diametro_cm, diametro_cm))
        massa_linear_g_cm == MulFx(area_cm2, dens)
        comprimento_cm == MulFx(alt_total, 100 * Um)
        massa_total_g == MulFx(massa_linear_g_cm, comprimento_cm)
    IN  DivFx(massa_total_g, 1000 * Um)

calcular_x50(A_, K_, Qe_) ==
    MulFx(MulFx(A_, Pow(K_, 0 - 8000)), Pow(Qe_, DivFx(Um, 6 * Um)))

\* np.radians(graus), graus a whole number of degrees.
Radians(graus) == (graus * Pi) \div 180

\* np.cos(x) for a small angle: 1 - x^2/2 + x^4/24 - x^6/720.
Cos(x) ==
    LET x2 == MulFx(x, x)
        x4 == MulFx(x2, x2)
        x6 == MulFx(x4, x2)
    IN  Um - (x2 \div 2) + (x4 \div 24) - (x6 \div 720)

(***************************************************************************)
(* State of one run of the script.                                         *)
(***************************************************************************)

VARIABLES
    explosivo_tipo, macico_tipo, malha_tipo,  \* the three selectboxes
    altura, furos_linha, linhas,              \* the three sliders
    pc,                                       \* position in the script
    erro,                                     \* the exception that ended the run
    A, afastamento, altura_total,
    S, densidade, Qe, n_furos, massa_total, V, K, X50_mm,
    i, j, pontos,                             \* hole-grid loop and its points
    n,                                        \* uniformity index
    x_mm, idx, curvas,                        \* sieve openings, sweep loop
    disco, buffer                             \* temporary files, PDF bytes

entradas == << explosivo_tipo, macico_tipo, malha_tipo, altura, furos_linha, linhas >>

consultas == << A, afastamento, altura_total >>

primario == << S, densidade, Qe, n_furos, massa_total, V, K, X50_mm >>

grade == << i, j, pontos >>

varredura == << x_mm, idx, curvas >>

relatorio == << disco, buffer >>

vars == << entradas, pc, erro, consultas, primario, grade, n, varredura, relatorio >>

Init ==
    /\ explosivo_tipo \in { Chaves(explosivos)[k] : k \in 1..Len(explosivos) }
    /\ macico_tipo \in { Chaves(macicos)[k] : k \in 1..Len(macicos) }
    /\ malha_tipo \in { Chaves(malha)[k] : k \in 1..Len(malha) }
    /\ altura \in Alturas
    /\ furos_linha \in 1..FurosLinhaMax
    /\ linhas \in 1..LinhasMax
    /\ pc = "entradas"
    /\ erro = "nenhum"
    /\ A = NaoDefinido /\ afastamento = NaoDefinido /\ altura_total = NaoDefinido
    /\ S = NaoDefinido /\ densidade = NaoDefinido /\ Qe = NaoDefinido
    /\ n_furos = NaoDefinido /\ massa_total = NaoDefinido /\ V = NaoDefinido
    /\ K = NaoDefinido /\ X50_mm = NaoDefinido
    /\ i = NaoDefinido /\ j = NaoDefinido /\ pontos = << >>
    /\ n = NaoDefinido
    /\ x_mm = << >> /\ idx = 0 /\ curvas = << >>
    /\ disco = {} /\ buffer = "nenhum"

(***************************************************************************)
(* Lines 56-67: the widgets are read and the two tables of column 1 are    *)
(* looked up.  A subscript with a name that is no key raises KeyError:     *)
(* line 59 fails before A is bound, line 60 after.                         *)
(***************************************************************************)
LerEntradas ==
    /\ pc = "entradas"
    /\ IF ~TemChave(macicos, macico_tipo)
       THEN /\ pc' = "abortado"
            /\ erro' = "KeyError"
            /\ UNCHANGED consultas
       ELSE IF ~TemChave(malha, malha_tipo)
       THEN /\ A' = Buscar(macicos, macico_tipo).A
            /\ pc' = "abortado"
            /\ erro' = "KeyError"
            /\ UNCHANGED << afastamento, altura_total >>
       ELSE /\ A' = Buscar(macicos, macico_tipo).A
            /\ afastamento' = Buscar(malha, malha_tipo).B
            /\ altura_total' = DivFx(altura + subperf, Cos(Radians(inclinacao)))
            /\ pc' = "calculo"
            /\ erro' = erro
    /\ UNCHANGED << entradas, primario, grade, n, varredura, relatorio >>

\* a / b where a is a numpy float64 and a > 0: a zero b gives inf, no exception.
Quociente(a, b) == IF b = 0 THEN Infinito ELSE DivFx(a, b)

\* Qe / V (line 78).
RazaoDeCarga(Qe_, V_) == Quociente(Qe_, V_)

\* The hole count as a sum instead of a product.
NumeroDeFurosSoma(furos, lin) == furos + lin

\* Line 73.
NumeroDeFuros(furos, lin) == furos * lin

\* Line 74: Qe times a whole number of holes.
MassaTotal(Qe_, nf) == Qe_ * nf

(***************************************************************************)
(* Lines 69-80: the primary evaluation.  The explosive is looked up on     *)
(* line 71, after the spacing of line 70.                                  *)
(***************************************************************************)
Calcular ==
    /\ pc = "calculo"
    /\ IF TemChave(explosivos, explosivo_tipo)
       THEN LET S_ == calcular_espacamento(altura, afastamento)
                dens == Buscar(explosivos, explosivo_tipo).densidade
                Qe_ == calcular_qe(dens, diametro, altura_total)
                nf == NumeroDeFuros(furos_linha, linhas)
                V_ == MulFx(MulFx(S_, afastamento), altura)
                K_ == RazaoDeCarga(Qe_, V_)
            IN  /\ S' = S_
                /\ densidade' = dens
                /\ Qe' = Qe_
                /\ n_furos' = nf
                /\ massa_total' = MassaTotal(Qe_, nf)
                /\ V' = V_
                /\ K' = K_
                /\ X50_mm' = MulFx(calcular_x50(A, K_, Qe_), 10 * Um)
                /\ pc' = "grade"
                /\ i' = 0
                /\ j' = 0
                /\ erro' = erro
       ELSE /\ pc' = "abortado"
            /\ erro' = "KeyError"
            /\ S' = calcular_espacamento(altura, afastamento)
            /\ UNCHANGED << densidade, Qe, n_furos, massa_total, V, K, X50_mm, i, j >>
    /\ UNCHANGED << entradas, consultas, pontos, n, varredura, relatorio >>

\* A staggered grid: odd rows shifted by half a spacing.
PontoDoFuroDefasado(i_, j_, S_, B) == << j_ * S_ + (i_ % 2) * (S_ \div 2), i_ * B >>

\* Lines 96-97: the hole j of row i.
PontoDoFuro(i_, j_, S_, B) == << j_ * S_, i_ * B >>

(***************************************************************************)
(* Lines 94-98: one pass of the inner loop plots one hole.                 *)
(***************************************************************************)
PlotarFuro ==
    /\ pc = "grade"
    /\ i < linhas
    /\ pontos' = Append(pontos, PontoDoFuro(i, j, S, afastamento))
    /\ IF j + 1 < furos_linha
       THEN /\ j' = j + 1
            /\ i' = i
       ELSE /\ j' = 0
            /\ i' = i + 1
    /\ UNCHANGED << entradas, pc, erro, consultas, primario, n, varredura, relatorio >>

\* The uniformity index with the diameter converted to metres.
IndiceUniformidadeMetros(B, S_, D, W_, L, H) ==
    MulFx(MulFx(22000 - 14 * DivFx(B, D \div 1000),
                Pow(Um + (DivFx(S_, B) \div 2), 5000)),
          MulFx(Um - DivFx(W_, B), Quociente(L, H)))

\* Line 109.  B, S_, L and H are in metres, D in millimetres.
IndiceUniformidade(B, S_, D, W_, L, H) ==
    MulFx(MulFx(22000 - 14 * DivFx(B, D),
                Pow(Um + (DivFx(S_, B) \div 2), 5000)),
          MulFx(Um - DivFx(W_, B), Quociente(L, H)))

(***************************************************************************)
(* Lines 99-110: the grid loop is over; the uniformity index is computed.  *)
(* S / afastamento and W / afastamento divide Python floats: a zero        *)
(* afastamento raises ZeroDivisionError.                                   *)
(***************************************************************************)
CalcularN ==
    /\ pc = "grade"
    /\ i = linhas
    /\ IF afastamento = 0
       THEN /\ pc' = "abortado"
            /\ erro' = "ZeroDivisionError"
            /\ n' = n
       ELSE /\ n' = IndiceUniformidade(afastamento, S, diametro, W, altura_total, altura)
            /\ pc' = "logspace"
            /\ erro' = erro
    /\ UNCHANGED << entradas, consultas, primario, grade, varredura, relatorio >>

\* np.linspace(a, b, num): num samples, the last one exactly b.
Linspace(a, b, num) ==
    [k \in 1..num |-> IF k = num THEN b ELSE a + (((b - a) * (k - 1)) \div (num - 1))]

\* The sieve openings stopping one decade short (1 mm to 1000 mm).
LogspaceCurto(a, b, num) == [k \in 1..num |-> Pow10(Linspace(a, b - Um, num)[k])]

\* np.logspace(a, b, num) = 10 ** np.linspace(a, b, num).
Logspace(a, b, num) == [k \in 1..num |-> Pow10(Linspace(a, b, num)[k])]

(***************************************************************************)
(* Line 114.                                                               *)
(***************************************************************************)
CalcularPeneiras ==
    /\ pc = "logspace"
    /\ x_mm' = Logspace(0, 4 * Um, NumPontos)
    /\ idx' = 1
    /\ pc' = "varredura"
    /\ UNCHANGED << entradas, erro, consultas, primario, grade, n, curvas, relatorio >>

\* Lines 123-124 at one sieve opening x: percent passing.
RosinRammler(x, X50, n_) ==
    LET R == Exp(MulFx(0 - 6930, Pow(Quociente(x, X50), n_)))
    IN  MulFx(100 * Um, Um - R)

\* The exponent recomputed for the pattern class of the pass.
ExpoenteDaCurvaPorMalha(n_primario, B, S_temp) ==
    IndiceUniformidade(B, S_temp, diametro, W, altura_total, altura)

\* Line 123: the exponent used inside the loop.
ExpoenteDaCurva(n_primario, B, S_temp) == n_primario

(***************************************************************************)
(* Lines 117-125: one pass of the sweep over malha.items().  X50_temp and   *)
(* the exponent are scalars, computed once per pass; R and P are arrays    *)
(* over x_mm.  K_temp is computed (line 121) and not used again.           *)
(***************************************************************************)
VarrerMalha ==
    /\ pc = "varredura"
    /\ idx <= Len(malha)
    /\ LET nome == malha[idx].nome
           B == malha[idx].B
           S_temp == calcular_espacamento(altura, B)
           V_temp == MulFx(MulFx(S_temp, B), altura)
           K_temp == Quociente(Qe, V_temp)
       IN  \E X50_temp \in { MulFx(calcular_x50(A, K, Qe), 10 * Um) } :
           \E expo \in { ExpoenteDaCurva(n, B, S_temp) } :
              curvas' = Append(curvas, [nome |-> nome, B |-> B, K_temp |-> K_temp,
                                     X50_temp |-> X50_temp, expoente |-> expo,
                                     P |-> [k \in 1..Len(x_mm) |-> RosinRammler(x_mm[k], X50_temp, expo)]])
    /\ idx' = idx + 1
    /\ pc' = IF idx = Len(malha) THEN "botao" ELSE "varredura"
    /\ UNCHANGED << entradas, erro, consultas, primario, grade, n, x_mm, relatorio >>

(***************************************************************************)
(* Line 170: st.button is False unless the user pressed it.                *)
(***************************************************************************)
BotaoNaoClicado ==
    /\ pc = "botao"
    /\ pc' = "fim"
    /\ UNCHANGED << entradas, erro, consultas, primario, grade, n, varredura, relatorio >>

ClicarBotao ==
    /\ pc = "botao"
    /\ pc' = "pdf_tmp_fogo"
    /\ UNCHANGED << entradas, erro, consultas, primario, grade, n, varredura, relatorio >>

(***************************************************************************)
(* gerar_pdf (lines 135-166), statement by statement.                      *)
(***************************************************************************)

\* The step that follows each step of gerar_pdf that can raise.
ProximoPasso ==
    [ pdf_savefig_fogo |-> "pdf_image_fogo",
      pdf_image_fogo |-> "pdf_tmp_granulo",
      pdf_savefig_granulo |-> "pdf_image_granulo",
      pdf_image_granulo |-> "pdf_output" ]

\* Lines 143 and 152: NamedTemporaryFile(delete=False) creates the file.
CriarTemporario ==
    /\ pc \in { "pdf_tmp_fogo", "pdf_tmp_granulo" }
    /\ disco' = disco \cup { IF pc = "pdf_tmp_fogo" THEN "tmp_fogo" ELSE "tmp_granulo" }
    /\ pc' = IF pc = "pdf_tmp_fogo" THEN "pdf_savefig_fogo" ELSE "pdf_savefig_granulo"
    /\ UNCHANGED << entradas, erro, consultas, primario, grade, n, varredura, buffer >>

\* Lines 144, 145, 153, 154: savefig and pdf.image return normally.
RasterizarOuEmbutir ==
    /\ pc \in DOMAIN ProximoPasso
    /\ pc' = ProximoPasso[pc]
    /\ UNCHANGED << entradas, erro, consultas, primario, grade, n, varredura, relatorio >>

\* Lines 157-160: the document is encoded into the buffer.
ExportarParaMemoria ==
    /\ pc = "pdf_output"
    /\ buffer' = "pdf"
    /\ pc' = "pdf_remover"
    /\ UNCHANGED << entradas, erro, consultas, primario, grade, n, varredura, disco >>

\* Lines 163-166: both files are removed and the buffer is returned.
ApagarTemporarios ==
    /\ pc = "pdf_remover"
    /\ disco' = disco \ { "tmp_fogo", "tmp_granulo" }
    /\ pc' = "pdf_retornou"
    /\ UNCHANGED << entradas, erro, consultas, primario, grade, n, varredura, buffer >>

\* savefig, pdf.image or the encoding raises: the with block closes the file
\* (delete=False keeps it) and the exception leaves gerar_pdf; no handler.
FalharExportacao ==
    /\ pc \in (DOMAIN ProximoPasso) \cup { "pdf_output" }
    /\ pc' = "pdf_falhou"
    /\ erro' = "Exception"
    /\ UNCHANGED << entradas, consultas, primario, grade, n, varredura, relatorio >>

Next ==
    \/ LerEntradas
    \/ Calcular
    \/ PlotarFuro
    \/ CalcularN
    \/ CalcularPeneiras
    \/ VarrerMalha
    \/ BotaoNaoClicado
    \/ ClicarBotao
    \/ CriarTemporario
    \/ RasterizarOuEmbutir
    \/ ExportarParaMemoria
    \/ ApagarTemporarios
    \/ FalharExportacao

Spec == Init /\ [][Next]_vars

(***************************************************************************)
(* Positions of the script.                                                *)
(***************************************************************************)

\* The primary evaluation (lines 69-80) has run.
AposCalculo == pc \notin { "entradas", "calculo", "abortado" }

\* The hole-grid loop is over and line 109 has run.
AposGrade == AposCalculo /\ pc # "grade"

\* The sweep loop is over.
AposVarredura == AposGrade /\ pc \notin { "logspace", "varredura" }

\* The sweep loop has just ended: its output is complete and is what the
\* rest of the script (which changes neither x_mm nor curvas) plots.
SaidaDaVarredura == pc = "botao"

\* gerar_pdf has been left, by return or by exception.
SaiuDoPdf == pc \in { "pdf_retornou", "pdf_falhou" }

\* The powder factor of pattern class k: K_i = Qe / (S_i * B_i * H).
RazaoDaMalha(k) ==
    Quociente(Qe, MulFx(MulFx(calcular_espacamento(altura, malha[k].B), malha[k].B), altura))

(***************************************************************************)
(* C1.  Each curve's X50 is recomputed from the powder factor of its own   *)
(* pattern class, X50_mm_i = 10 * calcular_x50(A, K_i, Qe), so the curves  *)
(* of Aberta and Fechada have different X50.                               *)
(* Line 122 passes K, the powder factor of the selected pattern, and       *)
(* leaves K_temp unused: this statement fails on the code.                 *)
(***************************************************************************)
C1_X50DeCadaMalha ==
    /\ \A k \in 1..Len(curvas) :
          curvas[k].X50_temp = MulFx(calcular_x50(A, RazaoDaMalha(k), Qe), 10 * Um)
    /\ Len(curvas) = 2 => curvas[1].X50_temp # curvas[2].X50_temp

(***************************************************************************)
(* C2.  Whenever gerar_pdf has been left, normally or by an exception, no  *)
(* temporary file it created is still on disk.                             *)
(* The two os.remove calls are the last statements before the return and   *)
(* no try/finally protects them: this statement fails on the code.         *)
(***************************************************************************)
C2_SemTemporarios == SaiuDoPdf => disco = {}

(***************************************************************************)
(* C3.  Once the primary evaluation has run, the hole count is the product *)
(* of holes per row and rows, and the total mass is the charge per hole    *)
(* times the hole count.                                                   *)
(***************************************************************************)
C3_FurosEMassa ==
    AposCalculo => /\ n_furos = furos_linha * linhas
                   /\ massa_total = Qe * n_furos

C3_Witness ==
    /\ pc = "fim"
    /\ furos_linha = 8 /\ linhas = 5
    /\ n_furos = 40
    /\ Qe > 0 /\ massa_total = 40 * Qe

(***************************************************************************)
(* C4.  The sweep appends one curve per pattern class in catalog order     *)
(* (Aberta, then Fechada); every curve has 100 points; the 100 sieve       *)
(* openings are strictly increasing, start at 1 mm, end at 10000 mm, and   *)
(* consecutive openings are a constant ratio apart (their logarithms       *)
(* differ by 4/99, up to the rounding of the fixed-point logarithm).       *)
(* The openings are examined where the sweep hands them over.             *)
(***************************************************************************)
C4_CurvasEPeneiras ==
    /\ Len(curvas) <= Len(malha)
    /\ \A k \in 1..Len(curvas) :
          /\ curvas[k].nome = malha[k].nome
          /\ Len(curvas[k].P) = 100
    /\ AposVarredura =>
          /\ Len(curvas) = 2
          /\ curvas[1].nome = "Aberta"
          /\ curvas[2].nome = "Fechada"
    /\ AposVarredura =>
          /\ Len(x_mm) = 100
          /\ x_mm[1] = Um
          /\ x_mm[100] = 10000 * Um
    /\ SaidaDaVarredura =>
          \A k \in 1..99 :
                /\ x_mm[k] < x_mm[k + 1]
                /\ Abs((Log10(x_mm[k + 1]) - Log10(x_mm[k])) - ((4 * Um) \div 99)) <= 3

C4_Witness ==
    /\ pc = "fim"
    /\ Len(curvas) = 2
    /\ Len(curvas[2].P) = 100
    /\ x_mm[100] = 10000 * Um

(***************************************************************************)
(* C6.  For every input of the declared domain the run is complete: the    *)
(* run never aborts, the volume per hole is strictly positive, no divisor  *)
(* of line 78 or line 109 is zero, and every result is set (finite) once   *)
(* its stage has run.                                                      *)
(***************************************************************************)
C6_ResultadoCompleto ==
    /\ pc # "abortado"
    /\ erro \notin { "KeyError", "ZeroDivisionError" }
    /\ pc # "entradas" =>
          \A v \in { A, afastamento, altura_total } : v # NaoDefinido
    /\ AposCalculo =>
          /\ V > 0
          /\ afastamento # 0 /\ altura # 0
          /\ \A v \in { S, densidade, Qe, n_furos, massa_total, K, X50_mm } :
                v \notin { NaoDefinido, Infinito }
    /\ AposGrade => n \notin { NaoDefinido, Infinito }
    /\ AposVarredura => Len(curvas) = Len(malha)

C6_Witness ==
    /\ pc = "fim"
    /\ malha_tipo = "Fechada" /\ altura = AlturaMin
    /\ furos_linha = 8 /\ linhas = 5
    /\ V > 0 /\ K > 0 /\ X50_mm > 0 /\ n > 0

(***************************************************************************)
(* C7.  A pass of the sweep loop changes no result of the primary          *)
(* evaluation (Qe and n among them), and every curve produced so far was   *)
(* evaluated with the exponent n of the primary evaluation.                *)
(***************************************************************************)
C7_VarreduraPreserva ==
    [][pc = "varredura" =>
          /\ Qe' = Qe
          /\ n' = n
          /\ primario' = primario
          /\ consultas' = consultas
          /\ \A k \in 1..Len(curvas') : curvas'[k].expoente = n]_vars

C7_Witness ==
    /\ pc = "botao"
    /\ malha_tipo = "Fechada"
    /\ Len(curvas) = 2
    /\ curvas[1].nome = "Aberta" /\ curvas[1].expoente = n
    /\ curvas[2].expoente = n
    /\ Qe > 0

(***************************************************************************)
(* C8.  The hole grid is filled row by row: while the loop runs the points *)
(* plotted so far are the first i rows and j holes of row i; when it is    *)
(* over there are linhas * furos_linha = n_furos points, the point of hole *)
(* j of row i being (j * S, i * afastamento), with no offset between rows; *)
(* one hole in one row gives the single point (0, 0).                      *)
(***************************************************************************)
C8_GradeRetangular ==
    AposCalculo =>
       /\ Len(pontos) = i * furos_linha + j
       /\ \A r \in 0..(linhas - 1) : \A c \in 0..(furos_linha - 1) :
             r * furos_linha + c + 1 <= Len(pontos) =>
                pontos[r * furos_linha + c + 1] = << c * S, r * afastamento >>
       /\ AposGrade =>
             /\ Len(pontos) = linhas * furos_linha
             /\ Len(pontos) = n_furos
             /\ (furos_linha = 1 /\ linhas = 1) => pontos = << << 0, 0 >> >>

C8_Witness ==
    /\ pc = "fim"
    /\ furos_linha = 8 /\ linhas = 5
    /\ Len(pontos) = 40
    /\ pontos[1] = << 0, 0 >>
    /\ pontos[10] = << S, afastamento >>
    /\ pontos[40] = << 7 * S, 4 * afastamento >>

(***************************************************************************)
(* C10.  The two factors of the uniformity index that could change sign    *)
(* are positive for every pattern class of the catalog, the index n is     *)
(* strictly positive, and every curve is non-decreasing in the sieve       *)
(* opening with values between 0 and 100 percent.  The points of a curve   *)
(* are examined while the sweep runs and where it hands them over.         *)
(***************************************************************************)
C10_CurvaMonotona ==
    /\ \A m \in 1..Len(malha) :
          /\ 22000 - 14 * DivFx(malha[m].B, diametro) > 0
          /\ Um - DivFx(W, malha[m].B) > 0
    /\ AposGrade => n > 0
    /\ \A k \in 1..Len(curvas) : curvas[k].expoente > 0
    /\ (pc = "varredura" \/ SaidaDaVarredura) =>
       \A k \in 1..Len(curvas) :
          \A p \in 1..Len(curvas[k].P) :
                /\ 0 <= curvas[k].P[p]
                /\ curvas[k].P[p] <= 100 * Um
                /\ p > 1 => curvas[k].P[p - 1] <= curvas[k].P[p]

C10_Witness ==
    /\ pc = "fim"
    /\ Len(curvas) = 2
    /\ n > 0
    /\ curvas[2].P[1] < 50 * Um
    /\ curvas[2].P[50] < curvas[2].P[60]
    /\ curvas[2].P[100] > 50 * Um

====
